---- MODULE Spec2Model ----
(***************************************************************************)
(* timesync: minimal SNTP client (src/rust/src/main.rs).                   *)
(*                                                                         *)
(* One run of main(): the retry loop around do_ntp_query, the validation   *)
(* of a reply, the offset / round-trip arithmetic and the gates in front   *)
(* of set_system_time.                                                     *)
(*                                                                         *)
(* The program computes with u32, u64 and i64 values that do not fit the   *)
(* model checker's integers, so a machine integer is held as four decimal  *)
(* limbs <<a3, a2, a1, a0>> of value a3*10^18 + a2*10^12 + a1*10^6 + a0,   *)
(* with 0 <= a0, a1, a2 < 10^6 and a3 carrying the sign.  The arithmetic   *)
(* below is exact; widths are enforced where the code enforces them.       *)
(***************************************************************************)
EXTENDS Integers, Sequences, FiniteSets, TLC

\* ------------------------------------------------------------------------
\* Exact wide integers
\* ------------------------------------------------------------------------

LimbBase == 10^6

\* Carry propagation: the unique limb form of a3*B^3 + a2*B^2 + a1*B + a0.
Norm(t) ==
    LET x1 == t[3] + (t[4] \div LimbBase)
        x2 == t[2] + (x1 \div LimbBase)
    IN  <<t[1] + (x2 \div LimbBase), x2 % LimbBase, x1 % LimbBase, t[4] % LimbBase>>

Big(n) == Norm(<<0, 0, 0, n>>)

Zero == <<0, 0, 0, 0>>

Add(a, b) == Norm(<<a[1] + b[1], a[2] + b[2], a[3] + b[3], a[4] + b[4]>>)

Sub(a, b) == Norm(<<a[1] - b[1], a[2] - b[2], a[3] - b[3], a[4] - b[4]>>)

Neg(a) == Sub(Zero, a)

\* a * k for 0 <= k < 2000
MulSmall(a, k) == Norm(<<a[1] * k, a[2] * k, a[3] * k, a[4] * k>>)

Lt(a, b) ==
    \/ a[1] < b[1]
    \/ a[1] = b[1] /\ a[2] < b[2]
    \/ a[1] = b[1] /\ a[2] = b[2] /\ a[3] < b[3]
    \/ a[1] = b[1] /\ a[2] = b[2] /\ a[3] = b[3] /\ a[4] < b[4]

Le(a, b) == a = b \/ Lt(a, b)

IsNeg(a) == a[1] < 0

\* floor(a / d) for 0 < d <= 2147, by long division
FloorDiv(a, d) ==
    LET n2 == (a[1] % d) * LimbBase + a[2]
        n3 == (n2 % d) * LimbBase + a[3]
        n4 == (n3 % d) * LimbBase + a[4]
    IN  <<a[1] \div d, n2 \div d, n3 \div d, n4 \div d>>

\* a mod d (non-negative) for 0 < d <= 2147
FloorMod(a, d) ==
    LET n2 == (a[1] % d) * LimbBase + a[2]
        n3 == (n2 % d) * LimbBase + a[3]
        n4 == (n3 % d) * LimbBase + a[4]
    IN  n4 % d

\* Rust's integer division and remainder truncate toward zero.
TruncDiv(a, d) == IF IsNeg(a) THEN Neg(FloorDiv(Neg(a), d)) ELSE FloorDiv(a, d)

TruncRem(a, d) == IF IsNeg(a) THEN 0 - FloorMod(Neg(a), d) ELSE FloorMod(a, d)

Abs(a) == IF IsNeg(a) THEN Neg(a) ELSE a

\* The value of a wide integer known to lie within the checker's integers.
Small(a) == a[3] * LimbBase + a[4]

\* x >> 32 for x >= 0
Shr32(a) == FloorDiv(FloorDiv(FloorDiv(a, 2048), 2048), 1024)

I64Max == <<9, 223372, 36854, 775807>>

I64Min == Sub(Neg(I64Max), Big(1))

InI64(a) == Le(I64Min, a) /\ Le(a, I64Max)

\* 2^64
TwoTo64 == Add(Add(I64Max, I64Max), Big(2))

\* Two's-complement wrap of a value within one 2^64 of the i64 range.
WrapI64(a) ==
    IF Lt(I64Max, a) THEN Sub(a, TwoTo64)
    ELSE IF Lt(a, I64Min) THEN Add(a, TwoTo64)
    ELSE a

\* Option<T>
None == <<>>

Some(v) == <<v>>

\* i64::checked_add
checked_add(a, b) == IF InI64(Add(a, b)) THEN Some(Add(a, b)) ELSE None

\* ------------------------------------------------------------------------
\* Wire format and timestamp conversion
\* ------------------------------------------------------------------------

NTP_PACKET_SIZE == 48

NTP_UNIX_EPOCH_DIFF == <<0, 0, 2208, 988800>>

DEFAULT_TIMEOUT_MS == 2000

DEFAULT_RETRIES == 3

Byte == 0..255

\* u32::from_be_bytes(b) as u64
from_be_bytes(b) ==
    Add(MulSmall(Add(MulSmall(Add(MulSmall(Big(b[1]), 256), Big(b[2])), 256), Big(b[3])), 256),
        Big(b[4]))

\* x.to_be_bytes() of a u32 (used to lay out the datagrams a server sends)
to_be_bytes(x) ==
    <<FloorMod(FloorDiv(FloorDiv(FloorDiv(x, 256), 256), 256), 256),
      FloorMod(FloorDiv(FloorDiv(x, 256), 256), 256),
      FloorMod(FloorDiv(x, 256), 256),
      FloorMod(x, 256)>>

\* Mutant: version 3 in the first octet (0x1b).
build_ntp_request_v3 == [i \in 1..NTP_PACKET_SIZE |-> IF i = 1 THEN 27 ELSE 0]

\* [0u8; 48] with packet[0] = 0x23
build_ntp_request == [i \in 1..NTP_PACKET_SIZE |-> IF i = 1 THEN 35 ELSE 0]

\* frac * 1_000_000 (frac a u32: the top limb is 0)
MulMillion(a) == <<a[2], a[3], a[4], 0>>

\* buf: the 8 octets of an NTP timestamp
ntp_ts_to_unix_ms(buf) ==
    IF Len(buf) < 8 THEN None
    ELSE LET sec  == from_be_bytes(SubSeq(buf, 1, 4))
             frac == from_be_bytes(SubSeq(buf, 5, 8))
         IN  IF Lt(sec, NTP_UNIX_EPOCH_DIFF) THEN None
             ELSE LET usec     == Shr32(MulMillion(frac))
                      unix_sec == Sub(sec, NTP_UNIX_EPOCH_DIFF)
                  IN  Some(Add(MulSmall(unix_sec, 1000), FloorDiv(usec, 1000)))

\* A SystemTime is held as its signed distance from UNIX_EPOCH in ms.
\* duration_since fails before the epoch; as_millis() as i64 keeps 64 bits.
system_time_to_ms(time) ==
    IF IsNeg(time) THEN None ELSE Some(WrapI64(time))

\* ------------------------------------------------------------------------
\* Local calendar year (chrono: Local.timestamp_millis_opt(ms), dt.year())
\* ------------------------------------------------------------------------

\* Proleptic Gregorian year of the day `days` days after 1970-01-01.
YearOfDays(days) ==
    LET z   == days + 719468
        era == z \div 146097
        doe == z - era * 146097
        yoe == (doe - (doe \div 1460) + (doe \div 36524) - (doe \div 146096)) \div 365
        doy == doe - (365 * yoe + (yoe \div 4) - (yoe \div 100))
        mp  == (5 * doy + 2) \div 153
    IN  yoe + era * 400 + (IF mp < 10 THEN 0 ELSE 1)

\* The instants the conversion below evaluates: 0 .. 2^32 s, which holds every
\* value ntp_ts_to_unix_ms returns.  chrono maps each of them to a single
\* local date-time.
InCalendarRange(ms) == ~IsNeg(ms) /\ Lt(ms, <<0, 4, 294967, 296000>>)

\* Local.timestamp_millis_opt(ms) reduced to the year of the local date-time;
\* utc_offset is the local zone's offset from UTC in seconds.
timestamp_millis_opt(ms, utc_offset) ==
    IF InCalendarRange(ms)
    THEN Some(YearOfDays((Small(FloorDiv(ms, 1000)) + utc_offset) \div 86400))
    ELSE None

\* ------------------------------------------------------------------------
\* Bounds and inputs
\* ------------------------------------------------------------------------

\* Largest value given to -r.
MaxRetryArg == 2

\* Most addresses the server name resolves to.
MaxAddrs == 2

\* 2025-01-01T00:00:00Z in ms since the Unix epoch.
T0 == <<0, 1, 735689, 600000>>

\* 2^62: two readings of at least this much do not add up in an i64.
TwoTo62 == FloorDiv(TwoTo64, 4)

\* What SystemTime::now() may return: instants around T0, a clock set before
\* the epoch, and clocks so far ahead that two readings overflow an i64 sum.
ClockReadings ==
    {Add(T0, Big(d)) : d \in {-10000, -300, 0, 300}} \cup {Big(-1), TwoTo62}

\* The zone's offset from UTC, in seconds (UTC-12 and UTC+14).
UtcOffsets == {-43200, 50400}

\* NTP timestamps (seconds since 1900, 2^-32 fractions) a server may send.
TsNewYear == to_be_bytes(<<0, 0, 3944, 678400>>) \o <<0, 0, 0, 0>>

TsHalfSecondBefore == to_be_bytes(<<0, 0, 3944, 678399>>) \o <<128, 0, 0, 0>>

TsBefore1970 == to_be_bytes(<<0, 0, 2208, 988799>>) \o <<255, 255, 255, 255>>

\* A datagram of `len` octets: byte 0, stratum, receive timestamp at 32..39,
\* transmit timestamp at 40..47.
Reply(li_vn_mode, stratum, receive, transmit, len) ==
    [i \in 1..len |->
        IF i = 1 THEN li_vn_mode
        ELSE IF i = 2 THEN stratum
        ELSE IF i > 32 /\ i <= 40 THEN receive[i - 32]
        ELSE IF i > 40 /\ i <= 48 THEN transmit[i - 40]
        ELSE 0]

\* The same with the receive timestamp left zero.
Datagram(li_vn_mode, stratum, transmit, len) ==
    Reply(li_vn_mode, stratum, <<0, 0, 0, 0, 0, 0, 0, 0>>, transmit, len)

ServerDatagrams ==
    { Datagram(36, 2, TsNewYear, 48),           \* LI 0, VN 4, mode 4
      Datagram(28, 1, TsHalfSecondBefore, 48),  \* LI 0, VN 3, mode 4
      Datagram(35, 2, TsNewYear, 48),           \* mode 3: the request echoed
      Datagram(36, 0, TsNewYear, 48),           \* stratum 0
      Datagram(4, 2, TsNewYear, 48),            \* VN 0
      Datagram(36, 2, TsBefore1970, 48),        \* transmit time before 1970
      Datagram(36, 2, TsNewYear, 47) }          \* one octet short

\* ------------------------------------------------------------------------
\* State
\* ------------------------------------------------------------------------

VARIABLES
    config,       \* Config: retries, timeout_ms, test_only
    env,          \* Some(uid, local zone's UTC offset) once main has read them
    pc,           \* "loop", "send", "recv", "sleep", "decide", "set", "exit"
    attempt,      \* calls of do_ntp_query made so far
    no_address,   \* the last call of do_ntp_query found no address for the name
    addrs_left,   \* addresses of the current call not yet done with
    recv_failed,  \* recv_from has failed on an earlier address of the current call
    sockets,      \* UDP sockets open
    read_timeout, \* Some(ms): the read timeout set on the open socket, else None
    request,      \* Some(packet): the last datagram send_to has sent, else None
    before,       \* SystemTime read before send_to (Some), else None
    response,     \* Option<NtpResponse>
    replies,      \* history: the replies received so far, as read off the wire
    after_err,    \* history: the last `after` read was a time before 1970
    estimate,     \* Some(offset_ms, roundtrip_ms) once main has computed them
    new_time_ms,  \* the argument computed for set_system_time (Some), else None
    set_calls,    \* every call of set_system_time: its time_ms, timeval, result
    exit_code,    \* Option: the status passed to process::exit
    exit_site     \* which process::exit ended the run

vars == <<config, env, pc, attempt, no_address, addrs_left, recv_failed, sockets,
          read_timeout,
          request, before, response, replies, after_err, estimate, new_time_ms,
          set_calls, exit_code, exit_site>>

\* Mutant: .min(10) left out.
parse_retries_unclamped(arg) ==
    LET n == IF arg = None THEN DEFAULT_RETRIES ELSE arg[1]
    IN  IF n > 1 THEN n ELSE 1

\* -r: args[i].parse().unwrap_or(DEFAULT_RETRIES).min(10).max(1); arg is None
\* when the option is absent or does not parse as u32.
parse_retries(arg) ==
    LET n == IF arg = None THEN DEFAULT_RETRIES ELSE arg[1]
        m == IF n < 10 THEN n ELSE 10
    IN  IF m > 1 THEN m ELSE 1

\* -t: args[i].parse().unwrap_or(DEFAULT_TIMEOUT_MS).min(6000).max(1)
parse_timeout(arg) ==
    LET n == IF arg = None THEN DEFAULT_TIMEOUT_MS ELSE arg[1]
        m == IF n < 6000 THEN n ELSE 6000
    IN  IF m > 1 THEN m ELSE 1

RetryArgs == {None} \cup {Some(n) : n \in 0..MaxRetryArg}

\* main up to the retry loop, for the given -r and -t arguments.
Start(retry_args, timeout_args) ==
    /\ config \in [retries : {parse_retries(a) : a \in retry_args},
                   timeout_ms : {parse_timeout(a) : a \in timeout_args},
                   test_only : BOOLEAN]
    /\ env = None
    /\ pc = "loop"
    /\ attempt = 0
    /\ no_address = FALSE
    /\ addrs_left = 0
    /\ recv_failed = FALSE
    /\ sockets = 0
    /\ read_timeout = None
    /\ request = None
    /\ before = None
    /\ response = None
    /\ replies = {}
    /\ after_err = FALSE
    /\ estimate = None
    /\ new_time_ms = None
    /\ set_calls = <<>>
    /\ exit_code = None
    /\ exit_site = "running"

Init == Start(RetryArgs, {None})

\* ------------------------------------------------------------------------
\* do_ntp_query and the retry loop of main
\* ------------------------------------------------------------------------

\* recv_from into buf = [0u8; 48]: the octets received and their count.
recv_from(datagram) ==
    [size |-> IF Len(datagram) < NTP_PACKET_SIZE THEN Len(datagram) ELSE NTP_PACKET_SIZE,
     buf  |-> [i \in 1..NTP_PACKET_SIZE |-> IF i <= Len(datagram) THEN datagram[i] ELSE 0]]

\* Mutant: the mode check left out.
reply_check_no_mode(size, buf) ==
    IF size < NTP_PACKET_SIZE THEN "short"
    ELSE IF buf[2] = 0 THEN "stratum"
    ELSE IF (buf[1] \div 8) % 8 \notin 1..4 THEN "version"
    ELSE IF ntp_ts_to_unix_ms(SubSeq(buf, 41, 48)) = None THEN "timestamp"
    ELSE "ok"

\* Mutant: versions above 4 let through.
reply_check_no_version_ceiling(size, buf) ==
    IF size < NTP_PACKET_SIZE THEN "short"
    ELSE IF buf[1] % 8 # 4 THEN "mode"
    ELSE IF buf[2] = 0 THEN "stratum"
    ELSE IF (buf[1] \div 8) % 8 < 1 THEN "version"
    ELSE IF ntp_ts_to_unix_ms(SubSeq(buf, 41, 48)) = None THEN "timestamp"
    ELSE "ok"

\* The checks of a received reply, in the order of the code; "ok" when all pass.
reply_check(size, buf) ==
    IF size < NTP_PACKET_SIZE THEN "short"
    ELSE IF buf[1] % 8 # 4 THEN "mode"
    ELSE IF buf[2] = 0 THEN "stratum"
    ELSE IF (buf[1] \div 8) % 8 \notin 1..4 THEN "version"
    ELSE IF ntp_ts_to_unix_ms(SubSeq(buf, 41, 48)) = None THEN "timestamp"
    ELSE "ok"

\* What one received reply comes to: the reason it is passed over, or "ok"
\* with the NtpResponse returned.  t_before and t_after are the SystemTimes
\* read around the exchange, got the reply as read (an element of Received).
reply_result(t_before, t_after, got) ==
    IF got.check # "ok" THEN [kind |-> got.check, resp |-> None]
    ELSE IF system_time_to_ms(t_before) = None \/ system_time_to_ms(t_after) = None
    THEN [kind |-> "clock", resp |-> None]
    ELSE [kind |-> "ok",
          resp |-> Some([local_before_ms |-> system_time_to_ms(t_before)[1],
                         remote_ms       |-> got.remote_ms[1],
                         local_after_ms  |-> system_time_to_ms(t_after)[1]])]

\* A datagram as do_ntp_query reads it: the octets received (wire; the code
\* looks at size, byte 0, byte 1 and octets 40..47, and never at the receive
\* timestamp in octets 32..39), the outcome of the checks and the decoded
\* transmit time.
Read(datagram) ==
    LET r == recv_from(datagram)
    IN  [wire      |-> [size       |-> r.size,
                        li_vn_mode |-> r.buf[1],
                        stratum    |-> r.buf[2],
                        receive    |-> SubSeq(r.buf, 33, 40),
                        transmit   |-> SubSeq(r.buf, 41, 48)],
         check     |-> reply_check(r.size, r.buf),
         remote_ms |-> ntp_ts_to_unix_ms(SubSeq(r.buf, 41, 48))]

\* Every datagram a server may send, as read.
Received == {Read(d) : d \in ServerDatagrams}

\* Mutant: `continue` leaves the socket of the iteration open.
Continue_socket_kept ==
    /\ UNCHANGED <<sockets, read_timeout>>
    /\ before' = None
    /\ IF addrs_left > 1
       THEN pc' = "send" /\ addrs_left' = addrs_left - 1
       ELSE pc' = "sleep" /\ addrs_left' = 0

\* Mutant: after the last address the next attempt starts without the pause.
Continue_no_pause ==
    /\ sockets' = 0
    /\ read_timeout' = None
    /\ before' = None
    /\ IF addrs_left > 1
       THEN pc' = "send" /\ addrs_left' = addrs_left - 1
       ELSE pc' = "loop" /\ addrs_left' = 0

\* `continue` in the loop over addrs: the socket goes out of scope; the next
\* address if there is one, else Err("Failed to query") to main, which sleeps.
Continue ==
    /\ sockets' = 0
    /\ read_timeout' = None
    /\ before' = None
    /\ IF addrs_left > 1
       THEN pc' = "send" /\ addrs_left' = addrs_left - 1
       ELSE pc' = "sleep" /\ addrs_left' = 0

\* process::exit(code)
Exit(site, code) ==
    /\ pc' = "exit"
    /\ exit_code' = Some(code)
    /\ exit_site' = site

\* Mutant: a name that resolves to no address ends the run.
Resolve_fatal(counts) ==
    /\ pc = "loop"
    /\ attempt < config.retries
    /\ attempt' = attempt + 1
    /\ \E n \in counts :
          /\ no_address' = (n = 0)
          /\ IF n = 0
             THEN Exit("query_failed", 2) /\ addrs_left' = 0
             ELSE pc' = "send" /\ addrs_left' = n /\ UNCHANGED <<exit_code, exit_site>>
    /\ UNCHANGED <<config, env, recv_failed, sockets, read_timeout, request, before,
                   response, replies, after_err, estimate, new_time_ms, set_calls>>

\* One iteration of `for attempt in 0..config.retries` up to the end of name
\* resolution in do_ntp_query; n, drawn from counts, is the number of
\* addresses found (0 also stands for a resolver error).
Resolve(counts) ==
    /\ pc = "loop"
    /\ attempt < config.retries
    /\ attempt' = attempt + 1
    /\ \E n \in counts :
          /\ no_address' = (n = 0)
          /\ IF n = 0
             THEN pc' = "sleep" /\ addrs_left' = 0
             ELSE pc' = "send" /\ addrs_left' = n
    /\ UNCHANGED <<config, env, recv_failed, sockets, read_timeout, request, before,
                   response, replies, after_err, estimate, new_time_ms, set_calls,
                   exit_code, exit_site>>

StartQuery == Resolve(0..MaxAddrs)

\* bind, set_read_timeout, build_ntp_request, SystemTime::now(), send_to;
\* the clock reads one of clocks.
Send(clocks) ==
    /\ pc = "send"
    /\ \E io \in {"bind_err", "set_read_timeout_err", "send_to_err", "sent"},
          now \in clocks :
          IF io = "sent"
          THEN /\ pc' = "recv"
               /\ sockets' = sockets + 1
               /\ read_timeout' = Some(config.timeout_ms)
               /\ request' = Some(build_ntp_request)
               /\ before' = Some(now)
               /\ UNCHANGED <<addrs_left, recv_failed>>
          ELSE /\ Continue
               /\ recv_failed' = (recv_failed /\ addrs_left > 1)
               /\ UNCHANGED request
    /\ UNCHANGED <<config, env, attempt, no_address, response, replies, after_err,
                   estimate, new_time_ms, set_calls, exit_code, exit_site>>

SendRequest == Send(ClockReadings)

\* recv_from fails (timeout or error): continue
ReceiveFails ==
    /\ pc = "recv"
    /\ Continue
    /\ recv_failed' = (addrs_left > 1)
    /\ UNCHANGED <<config, env, attempt, no_address, request, response, replies,
                   after_err, estimate, new_time_ms, set_calls, exit_code, exit_site>>

\* Mutant: do_ntp_query goes on to the next address after a good reply.
Receive_no_return(received, clocks) ==
    /\ pc = "recv"
    /\ \E got \in received, now \in clocks :
          LET res == reply_result(before[1], now, got)
          IN  /\ Continue
              /\ recv_failed' = (recv_failed /\ addrs_left > 1)
              /\ response' = IF res.kind = "ok" THEN res.resp ELSE response
              /\ replies' = replies \cup {got.wire}
              /\ after_err' = IsNeg(now)
    /\ UNCHANGED <<config, env, attempt, no_address, request, estimate, new_time_ms,
                   set_calls, exit_code, exit_site>>

\* recv_from returns a datagram, one of received: SystemTime::now() (one of
\* clocks), the checks, and either `continue` or return Ok(NtpResponse), on
\* which main breaks out of its loop.
Receive(received, clocks) ==
    /\ pc = "recv"
    /\ \E got \in received, now \in clocks :
          LET res == reply_result(before[1], now, got)
          IN  /\ IF res.kind = "ok"
                 THEN /\ response' = res.resp
                      /\ pc' = "decide"
                      /\ sockets' = 0
                      /\ read_timeout' = None
                      /\ before' = None
                      /\ addrs_left' = 0
                      /\ recv_failed' = FALSE
                 ELSE /\ Continue
                      /\ recv_failed' = (recv_failed /\ addrs_left > 1)
                      /\ UNCHANGED response
              /\ replies' = replies \cup {got.wire}
              /\ after_err' = IsNeg(now)
    /\ UNCHANGED <<config, env, attempt, no_address, request, estimate, new_time_ms,
                   set_calls, exit_code, exit_site>>

ReceiveReply == Receive(Received, ClockReadings)

\* std::thread::sleep(200 ms) in the Err arm, then the next iteration
Sleep ==
    /\ pc = "sleep"
    /\ pc' = "loop"
    /\ UNCHANGED <<config, env, attempt, no_address, addrs_left, recv_failed, sockets,
                   read_timeout,
                   request, before, response, replies, after_err, estimate,
                   new_time_ms, set_calls, exit_code, exit_site>>

\* Mutant: the run given up after the first failed call.
QueryFailed_no_retry ==
    /\ pc = "loop"
    /\ attempt >= 1
    /\ response = None
    /\ Exit("query_failed", 2)
    /\ UNCHANGED <<config, env, attempt, no_address, addrs_left, recv_failed, sockets,
                   read_timeout,
                   request, before, response, replies, after_err, estimate,
                   new_time_ms, set_calls>>

\* The loop ran out with success still false.
QueryFailed ==
    /\ pc = "loop"
    /\ attempt >= config.retries
    /\ response = None
    /\ Exit("query_failed", 2)
    /\ UNCHANGED <<config, env, attempt, no_address, addrs_left, recv_failed, sockets,
                   read_timeout,
                   request, before, response, replies, after_err, estimate,
                   new_time_ms, set_calls>>

\* ------------------------------------------------------------------------
\* main after a successful query: the gates and set_system_time
\* ------------------------------------------------------------------------

\* Mutant: i64::wrapping_add in place of checked_add.
averaged_wrapping(resp) ==
    Some(WrapI64(Add(resp.local_before_ms, resp.local_after_ms)))

\* resp.local_before_ms.checked_add(resp.local_after_ms)
averaged(resp) == checked_add(resp.local_before_ms, resp.local_after_ms)

\* Mutant: the offset taken against the reading before the request alone.
offset_ms_from_before(resp, avg_local_ms) ==
    WrapI64(Sub(resp.remote_ms, resp.local_before_ms))

\* resp.remote_ms - avg_local_ms
offset_ms(resp, avg_local_ms) == WrapI64(Sub(resp.remote_ms, avg_local_ms))

\* resp.local_after_ms - resp.local_before_ms
roundtrip_ms(resp) == WrapI64(Sub(resp.local_after_ms, resp.local_before_ms))

\* Mutant: no upper limit on the round trip.
roundtrip_invalid_no_ceiling(rtt) == IsNeg(rtt)

\* roundtrip_ms < 0 || roundtrip_ms > 10000
roundtrip_invalid(rtt) == IsNeg(rtt) \/ Lt(Big(10000), rtt)

\* Mutant: .abs() forgotten.
below_threshold_signed(offset) == Lt(Zero, offset) /\ Lt(offset, Big(500))

\* offset_ms.abs() > 0 && offset_ms.abs() < 500
below_threshold(offset) == Lt(Zero, Abs(offset)) /\ Lt(Abs(offset), Big(500))

\* Mutant: no lower limit on the year.
year_invalid_no_floor(remote_year) == remote_year > 2200

\* remote_year < 2025 || remote_year > 2200
year_invalid(remote_year) == remote_year < 2025 \/ remote_year > 2200

\* Mutant: the test_only flag ignored.
dry_run_ignored(cfg) == FALSE

\* config.test_only
dry_run(cfg) == cfg.test_only

\* Mutant: the uid check left out.
not_root_ignored(uid) == FALSE

\* libc::getuid() != 0
not_root(uid) == uid # 0

\* Mutant: the whole round trip added instead of half of it.
target_time_whole_rtt(resp, rtt) == checked_add(resp.remote_ms, rtt)

\* resp.remote_ms.checked_add(roundtrip_ms / 2)
target_time(resp, rtt) == checked_add(resp.remote_ms, TruncDiv(rtt, 2))

\* Mutant: the year checked before the offset threshold.
decision_year_first(resp, cfg, e) ==
    LET sum == averaged(resp)
    IN  IF sum = None
        THEN [site |-> "avg_overflow", code |-> 1, time |-> None, estimate |-> None]
        ELSE
        LET avg    == TruncDiv(sum[1], 2)
            offset == offset_ms(resp, avg)
            rtt    == roundtrip_ms(resp)
            year   == timestamp_millis_opt(resp.remote_ms, e.utc_offset)
            est    == Some([offset_ms |-> offset, roundtrip_ms |-> rtt])
        IN  IF roundtrip_invalid(rtt)
            THEN [site |-> "roundtrip", code |-> 1, time |-> None, estimate |-> est]
            ELSE IF year = None
            THEN [site |-> "parse_remote", code |-> 1, time |-> None, estimate |-> est]
            ELSE IF year_invalid(year[1])
            THEN [site |-> "remote_year", code |-> 1, time |-> None, estimate |-> est]
            ELSE IF below_threshold(offset)
            THEN [site |-> "below_threshold", code |-> 0, time |-> None, estimate |-> est]
            ELSE IF dry_run(cfg)
            THEN [site |-> "test_only", code |-> 0, time |-> None, estimate |-> est]
            ELSE IF not_root(e.uid)
            THEN [site |-> "not_root", code |-> 0, time |-> None, estimate |-> est]
            ELSE IF target_time(resp, rtt) = None
            THEN [site |-> "calc_overflow", code |-> 1, time |-> None, estimate |-> est]
            ELSE [site |-> "set", code |-> 0, time |-> target_time(resp, rtt),
                  estimate |-> est]

\* The code from `let resp = response.unwrap()` to the call of
\* set_system_time: the process::exit taken and its status, or site "set" with
\* the time to write, and the offset_ms and roundtrip_ms computed on the way.
\* e is what the process reads of its environment: getuid() and the local zone.
decision(resp, cfg, e) ==
    LET sum == averaged(resp)
    IN  IF sum = None
        THEN [site |-> "avg_overflow", code |-> 1, time |-> None, estimate |-> None]
        ELSE
        LET avg    == TruncDiv(sum[1], 2)
            offset == offset_ms(resp, avg)
            rtt    == roundtrip_ms(resp)
            year   == timestamp_millis_opt(resp.remote_ms, e.utc_offset)
            est    == Some([offset_ms |-> offset, roundtrip_ms |-> rtt])
        IN  IF roundtrip_invalid(rtt)
            THEN [site |-> "roundtrip", code |-> 1, time |-> None, estimate |-> est]
            ELSE IF below_threshold(offset)
            THEN [site |-> "below_threshold", code |-> 0, time |-> None, estimate |-> est]
            ELSE IF year = None
            THEN [site |-> "parse_remote", code |-> 1, time |-> None, estimate |-> est]
            ELSE IF year_invalid(year[1])
            THEN [site |-> "remote_year", code |-> 1, time |-> None, estimate |-> est]
            ELSE IF dry_run(cfg)
            THEN [site |-> "test_only", code |-> 0, time |-> None, estimate |-> est]
            ELSE IF not_root(e.uid)
            THEN [site |-> "not_root", code |-> 0, time |-> None, estimate |-> est]
            ELSE IF target_time(resp, rtt) = None
            THEN [site |-> "calc_overflow", code |-> 1, time |-> None, estimate |-> est]
            ELSE [site |-> "set", code |-> 0, time |-> target_time(resp, rtt),
                  estimate |-> est]

Decide ==
    /\ pc = "decide"
    /\ \E e \in [uid : {0, 1000}, utc_offset : UtcOffsets] :
          LET d == decision(response[1], config, e)
          IN  /\ env' = Some(e)
              /\ estimate' = d.estimate
              /\ IF d.site = "set"
                 THEN /\ pc' = "set"
                      /\ new_time_ms' = d.time
                      /\ UNCHANGED <<exit_code, exit_site>>
                 ELSE /\ Exit(d.site, d.code)
                      /\ UNCHANGED new_time_ms
    /\ UNCHANGED <<config, attempt, no_address, addrs_left, recv_failed, sockets,
                   read_timeout,
                   request, before, response, replies, after_err, set_calls>>

\* set_system_time(time_ms): the timeval handed to settimeofday
timeval(time_ms) ==
    [tv_sec  |-> TruncDiv(time_ms, 1000),
     tv_usec |-> TruncRem(time_ms, 1000) * 1000]

\* Mutant: a failed clock write reported with the status of a sanity failure.
SetSystemTime_status1 ==
    /\ pc = "set"
    /\ \E settimeofday_ok \in BOOLEAN :
          /\ set_calls' = Append(set_calls, [time_ms |-> new_time_ms[1],
                                             tv      |-> timeval(new_time_ms[1]),
                                             ok      |-> settimeofday_ok])
          /\ IF settimeofday_ok THEN Exit("set_ok", 0) ELSE Exit("set_failed", 1)
    /\ UNCHANGED <<config, env, attempt, no_address, addrs_left, recv_failed, sockets,
                   read_timeout,
                   request, before, response, replies, after_err, estimate,
                   new_time_ms>>

\* match set_system_time(new_time_ms): settimeofday returns 0 or fails
SetSystemTime ==
    /\ pc = "set"
    /\ \E settimeofday_ok \in BOOLEAN :
          /\ set_calls' = Append(set_calls, [time_ms |-> new_time_ms[1],
                                             tv      |-> timeval(new_time_ms[1]),
                                             ok      |-> settimeofday_ok])
          /\ IF settimeofday_ok
             THEN IF timestamp_millis_opt(response[1].remote_ms, env[1].utc_offset) = None
                  THEN Exit("format", 1)
                  ELSE Exit("set_ok", 0)
             ELSE Exit("set_failed", 10)
    /\ UNCHANGED <<config, env, attempt, no_address, addrs_left, recv_failed, sockets,
                   read_timeout,
                   request, before, response, replies, after_err, estimate,
                   new_time_ms>>

Next ==
    \/ StartQuery
    \/ SendRequest
    \/ ReceiveFails
    \/ ReceiveReply
    \/ Sleep
    \/ QueryFailed
    \/ Decide
    \/ SetSystemTime

Spec == Init /\ [][Next]_vars

\* ------------------------------------------------------------------------
\* A run with -r 1 against a name with at most one address, over a wide
\* range of replies: every mode and version, with and without server
\* timestamps near the start of the Unix era.
\* ------------------------------------------------------------------------

\* 1970-01-01T00:00:00Z, 00:00:02.000Z and 00:00:02.100Z as NTP timestamps.
TsEpoch == to_be_bytes(NTP_UNIX_EPOCH_DIFF) \o <<0, 0, 0, 0>>

Ts2000ms == to_be_bytes(<<0, 0, 2208, 988802>>) \o <<0, 0, 0, 0>>

Ts2100ms == to_be_bytes(<<0, 0, 2208, 988802>>) \o to_be_bytes(<<0, 0, 429, 496730>>)

OneDatagrams ==
    { Reply(li * 64 + vn * 8 + mode, stratum, receive, transmit, len) :
        li \in {0, 3}, vn \in 0..7, mode \in 0..7, stratum \in {0, 1},
        receive \in {TsEpoch, Ts2000ms},
        transmit \in {TsBefore1970, TsEpoch, Ts2100ms, TsNewYear},
        len \in {47, 48, 60} }

OneReceived == {Read(d) : d \in OneDatagrams}

OneClockReadings ==
    {Big(-1), Big(1000), Big(1300), Big(1301), T0, Add(T0, Big(300))}

InitOne == Start({Some(1)}, {None})

ResolveOne == Resolve({0, 1})

SendOne == Send(OneClockReadings)

ReceiveOne == Receive(OneReceived, OneClockReadings)

NextOne ==
    \/ ResolveOne
    \/ SendOne
    \/ ReceiveFails
    \/ ReceiveOne
    \/ Sleep
    \/ QueryFailed
    \/ Decide
    \/ SetSystemTime

SpecOne == InitOne /\ [][NextOne]_vars

\* ------------------------------------------------------------------------
\* Runs over the range of -r and -t, against a server that answers with a
\* good reply, with a reply that fails the checks, or not at all.
\* ------------------------------------------------------------------------

\* -r absent, below, at and above the limits 1 and 10.
TermRetryArgs == {None, Some(0), Some(1), Some(10), Some(11)}

\* -t absent, below, at and above the limits 1 and 6000.
TermTimeoutArgs == {None, Some(0), Some(1), Some(6000), Some(6001)}

TermReceived ==
    {Read(d) : d \in {Datagram(36, 2, TsNewYear, 48), Datagram(35, 2, TsNewYear, 48)}}

TermClockReadings == {T0, Add(T0, Big(300))}

InitTerm == Start(TermRetryArgs, TermTimeoutArgs)

SendTerm == Send(TermClockReadings)

ReceiveTerm == Receive(TermReceived, TermClockReadings)

NextTerm ==
    \/ StartQuery
    \/ SendTerm
    \/ ReceiveFails
    \/ ReceiveTerm
    \/ Sleep
    \/ QueryFailed
    \/ Decide
    \/ SetSystemTime

\* The step that leaves the decision, whichever way it goes.
Decides == pc = "decide" /\ pc' \in {"set", "exit"}

\* The program is one thread of calls that return: the resolver, bind and
\* send_to, recv_from under its read timeout, sleep(200 ms), settimeofday
\* and process::exit, and between them straight-line arithmetic.  A run
\* therefore takes its next step whenever it has one.
FairTerm ==
    /\ InitTerm
    /\ [][NextTerm]_vars
    /\ WF_vars(StartQuery \/ SendTerm \/ ReceiveFails \/ ReceiveTerm
                 \/ Sleep \/ QueryFailed \/ SetSystemTime)
    /\ WF_pc(Decides)

\* ------------------------------------------------------------------------
\* Well-formedness of the model
\* ------------------------------------------------------------------------

TypeOK ==
    /\ pc \in {"loop", "send", "recv", "sleep", "decide", "set", "exit"}
    /\ attempt \in 0..config.retries
    /\ addrs_left \in 0..MaxAddrs
    /\ sockets \in 0..1
    /\ (exit_code = None) = (pc # "exit")
    /\ (pc \in {"decide", "set"}) => response # None

\* The unchecked i64 subtractions of main never leave the i64 range for the
\* inputs above, so a build with overflow checks does not panic on them.
NoOverflow ==
    response # None =>
        LET r == response[1]
        IN  /\ InI64(Sub(r.local_after_ms, r.local_before_ms))
            /\ checked_add(r.local_before_ms, r.local_after_ms) # None =>
                  InI64(Sub(r.remote_ms,
                            TruncDiv(Add(r.local_before_ms, r.local_after_ms), 2)))

\* ------------------------------------------------------------------------
\* Properties
\* ------------------------------------------------------------------------

\* The quantities the properties speak of, as exact integers (no wrap).
Accepted == response # None

Delay == Sub(response[1].local_after_ms, response[1].local_before_ms)

Offset ==
    Sub(response[1].remote_ms,
        TruncDiv(Add(response[1].local_before_ms, response[1].local_after_ms), 2))

SumFits == InI64(Add(response[1].local_before_ms, response[1].local_after_ms))

DelayInRange == ~IsNeg(Delay) /\ Le(Delay, Big(10000))

RemoteYear == timestamp_millis_opt(response[1].remote_ms, env[1].utc_offset)[1]

YearInRange == RemoteYear >= 2025 /\ RemoteYear <= 2200

Privileged == env[1].uid = 0

Ended == pc = "exit"

NoClockWrite == set_calls = <<>> /\ pc # "set"

\* A reply as read off the wire: its mode, version and transmit seconds.
WireMode(w) == w.li_vn_mode % 8

WireVersion(w) == (w.li_vn_mode \div 8) % 8

WireTransmitSeconds(w) == from_be_bytes(SubSeq(w.transmit, 1, 4))

FullSize(w) == w.size >= NTP_PACKET_SIZE

ValidOnWire(w) ==
    /\ FullSize(w)
    /\ WireMode(w) = 4
    /\ w.stratum # 0
    /\ WireVersion(w) \in 1..4
    /\ Le(NTP_UNIX_EPOCH_DIFF, WireTransmitSeconds(w))

EveryReplyHasBadMode ==
    /\ replies # {}
    /\ \A w \in replies : FullSize(w) /\ WireMode(w) # 4

\* C1: when every reply received in the run is a full-size datagram whose
\* mode is not 4, set_system_time is never called, and the run can only end
\* by process::exit(2), after exactly config.retries calls of do_ntp_query.
C1_BadModeExhausts ==
    EveryReplyHasBadMode =>
        /\ NoClockWrite
        /\ ~Accepted
        /\ Ended => (exit_code = Some(2) /\ attempt = config.retries)

C1_Witness ==
    /\ Ended
    /\ EveryReplyHasBadMode
    /\ config.retries = 2
    /\ attempt = 2
    /\ exit_code = Some(2)

\* C2: in a dry run (config.test_only) set_system_time is never called.
C2_DryRunNeverSets == config.test_only => NoClockWrite

C2_Witness ==
    /\ Ended
    /\ config.test_only
    /\ exit_site = "test_only"
    /\ Privileged
    /\ ~Lt(Abs(Offset), Big(500))

\* C3: when the round-trip delay of the accepted reply is negative or above
\* 10000 ms, set_system_time is never called and the run ends with status 1.
C3_DelayOutOfRange ==
    (Accepted /\ ~DelayInRange) =>
        /\ NoClockWrite
        /\ Ended => exit_code = Some(1)

C3_Witness ==
    /\ Ended
    /\ Accepted
    /\ Lt(Big(10000), Delay)
    /\ SumFits
    /\ ~Lt(Abs(Offset), Big(500))
    /\ YearInRange
    /\ Privileged
    /\ ~config.test_only
    /\ exit_code = Some(1)

\* C4: when the accepted reply's transmit time lies in a (local) calendar
\* year before 2025 or after 2200, set_system_time is never called.
C4_YearOutOfRange ==
    (Accepted /\ env # None /\ ~YearInRange) => NoClockWrite

C4_Witness ==
    /\ Ended
    /\ Accepted
    /\ RemoteYear = 2024
    /\ DelayInRange
    /\ ~Lt(Abs(Offset), Big(500))
    /\ Privileged
    /\ ~config.test_only
    /\ exit_site = "remote_year"

\* C5: for an accepted reply with delay in [0, 10000] ms and an offset whose
\* absolute value is nonzero and below 500 ms, of either sign, the run ends
\* with status 0 and set_system_time is not called.
C5_BelowThreshold ==
    (Accepted /\ DelayInRange /\ Lt(Zero, Abs(Offset)) /\ Lt(Abs(Offset), Big(500))) =>
        /\ NoClockWrite
        /\ Ended => exit_code = Some(0)

C5_Witness ==
    /\ Ended
    /\ Accepted
    /\ DelayInRange
    /\ IsNeg(Offset)
    /\ Lt(Abs(Offset), Big(500))
    /\ YearInRange
    /\ Privileged
    /\ ~config.test_only
    /\ exit_code = Some(0)

\* C6: when the offset is exactly 0 ms, set_system_time is not called.
C6_ZeroOffsetNoWrite == (Accepted /\ Offset = Zero) => set_calls = <<>>

GatesBeforeWrite ==
    /\ Accepted
    /\ DelayInRange
    /\ ~Lt(Abs(Offset), Big(500))
    /\ YearInRange
    /\ ~config.test_only

WrittenOnce(time_ms) == Len(set_calls) = 1 /\ set_calls[1].time_ms = time_ms

C8_NotPrivileged ==
    (env # None /\ ~Privileged) =>
        /\ NoClockWrite
        /\ (Ended /\ GatesBeforeWrite /\ SumFits) => exit_code = Some(0)

C8_Witness ==
    /\ Ended
    /\ GatesBeforeWrite
    /\ SumFits
    /\ ~Privileged
    /\ Offset # Zero
    /\ exit_site = "not_root"
    /\ exit_code = Some(0)

\* C9: a run that has ended has one exit status, and the status tells the
\* class of the outcome: 0 for the clock set, below threshold, dry run or not
\* root; 2 for no reply accepted; 1 for averaging overflow, delay or year out
\* of range (and the other aborted computations); 10 for a failed clock write.
C9_ExitStatus ==
    /\ Ended = (exit_code # None)
    /\ Ended =>
        /\ exit_code \in {Some(0), Some(1), Some(2), Some(10)}
        /\ (exit_code = Some(0)) =
              (exit_site \in {"set_ok", "below_threshold", "test_only", "not_root"})
        /\ (exit_code = Some(2)) = (exit_site = "query_failed")
        /\ (exit_code = Some(1)) =
              (exit_site \in {"avg_overflow", "roundtrip", "remote_year",
                              "parse_remote", "calc_overflow", "format"})
        /\ (exit_code = Some(10)) = (exit_site = "set_failed")
        /\ (exit_site = "query_failed") = ~Accepted
        /\ (exit_site = "set_ok") = (set_calls # <<>> /\ set_calls[1].ok)
        /\ (exit_site = "set_failed") = (set_calls # <<>> /\ ~set_calls[1].ok)
        /\ (exit_site = "avg_overflow") = (Accepted /\ ~SumFits)
        /\ (exit_site = "roundtrip") = (Accepted /\ SumFits /\ ~DelayInRange)
        /\ (exit_site = "below_threshold") =>
              (Lt(Zero, Abs(Offset)) /\ Lt(Abs(Offset), Big(500)))
        /\ (exit_site = "remote_year") => ~YearInRange
        /\ (exit_site = "test_only") => config.test_only
        /\ (exit_site = "not_root") => ~Privileged

C9_Witness ==
    /\ Ended
    /\ exit_code = Some(10)
    /\ set_calls # <<>>
    /\ ~set_calls[1].ok

\* A step that receives a reply not received before in the run, and that reply.
ReceivesNew == pc = "recv" /\ replies' # replies

NewReply == CHOOSE w \in replies' \ replies : TRUE

FailsValidation(w) == FullSize(w) /\ ~ValidOnWire(w)

\* The step ends with the reply accepted: main holds its NtpResponse.
SucceedsWith(w) ==
    /\ response' # None
    /\ response'[1].remote_ms = ntp_ts_to_unix_ms(w.transmit)[1]
    /\ pc' = "decide"

\* The step ends with the reply passed over and the run going on.
PassedOver ==
    /\ response' = None
    /\ exit_code' = None
    /\ pc' \in {"send", "sleep"}
    /\ attempt' = attempt

\* The run fails for lack of a reply only when every attempt has been made.
OnlyExhaustionFails == (exit_site' = "query_failed") => (attempt' = config.retries)

Resolves == attempt' = attempt + 1

\* C12 as stated: the name is resolved once in a run, and once it has resolved
\* to no address the run does not resolve it again.
C12_Original ==
    [][ /\ Resolves => attempt = 0
        /\ no_address => ~Resolves ]_vars

\* C12: the name is resolved at the start of every query attempt and at no
\* other time; when it resolves to no address no request is sent in that
\* attempt and the run goes to the pause of the retry loop; from there it
\* resolves the name again while attempts remain, and exits with status 2
\* once config.retries attempts are made.
C12_ResolvedPerAttempt ==
    [][ /\ attempt' # attempt =>
              (Resolves /\ pc = "loop" /\ attempt < config.retries)
        /\ (Resolves /\ no_address') =>
              (pc' = "sleep" /\ exit_code' = None /\ request' = request)
        /\ (no_address /\ pc = "sleep") => pc' = "loop"
        /\ (no_address /\ pc = "loop") =>
              IF attempt < config.retries
              THEN Resolves
              ELSE exit_code' = Some(2) ]_vars

C12_Witness ==
    /\ Ended
    /\ no_address
    /\ request = None
    /\ config.retries = 3
    /\ attempt = 3
    /\ exit_code = Some(2)

\* The step sends a request.
Sends == pc = "send" /\ pc' = "recv"

\* C13 as stated: no request is sent after a failed receive with no pause in
\* between, however many addresses the name resolved to.
C13_Original == [][ Sends => ~recv_failed ]_vars

\* C13: a failed receive on the last address of an attempt is followed by the
\* pause, and a new attempt starts only out of the pause; a failed receive
\* with further addresses to try is followed directly, with no pause, by the
\* turn of the next address.
C13_PauseBetweenAttempts ==
    [][ /\ ReceiveFails =>
              IF addrs_left > 1
              THEN pc' = "send" /\ recv_failed'
              ELSE pc' = "sleep" /\ ~recv_failed'
        /\ (pc # "loop" /\ pc' = "loop") => pc = "sleep"
        /\ Resolves => (pc = "loop" /\ ~recv_failed)
        /\ (Sends /\ recv_failed) => (attempt' = attempt /\ addrs_left < MaxAddrs) ]_vars

\* A request out to the second address, sent right after the receive on the
\* first address failed.
C13_Witness ==
    /\ pc = "recv"
    /\ recv_failed
    /\ addrs_left = 1
    /\ attempt = 1
    /\ replies = {}

\* C14: once do_ntp_query has returned a reply, main holds on to it: no
\* further request, attempt or socket; the NtpResponse is made of the clock
\* reading before the request, the transmit time of a reply received and a
\* clock reading taken at its receipt, and offset_ms and roundtrip_ms are
\* computed from this NtpResponse.
C14_FirstReplyOnly ==
    [][ /\ response # None =>
              /\ response' = response
              /\ attempt' = attempt
              /\ request' = request
              /\ replies' = replies
              /\ sockets' = 0
              /\ pc' \in {"set", "exit"}
        /\ (response = None /\ response' # None) =>
              /\ pc = "recv"
              /\ pc' = "decide"
              /\ response'[1].local_before_ms = before[1]
              /\ \E w \in replies' :
                    Some(response'[1].remote_ms) = ntp_ts_to_unix_ms(w.transmit)
              /\ IsNeg(response'[1].local_after_ms) = after_err'
        /\ estimate' # estimate =>
              /\ estimate = None
              /\ response # None
              /\ estimate' = Some([offset_ms |-> Offset, roundtrip_ms |-> Delay]) ]_vars

\* Ended on the first of three attempts.
C14_Witness ==
    /\ Ended
    /\ Accepted
    /\ estimate # None
    /\ config.retries = 3
    /\ attempt = 1
    /\ Cardinality(replies) = 1

\* The four timestamps of the one exchange of a run under SpecOne: T1 and T4
\* are the local readings kept in the NtpResponse, T3 its remote_ms, and T2
\* the receive timestamp of the reply, which the program does not read.
T1 == response[1].local_before_ms

T2 == ntp_ts_to_unix_ms((CHOOSE w \in replies : TRUE).receive)[1]

T3 == response[1].remote_ms

T4 == response[1].local_after_ms

\* C15 as stated, for the replies of a server that transmits after it has
\* received: delay = (T4 - T1) - (T3 - T2) and
\* offset = ((T2 - T1) + (T3 - T4)) / 2.
C15_Original ==
    (estimate # None /\ Le(T2, T3)) =>
        /\ estimate[1].roundtrip_ms = Sub(Sub(T4, T1), Sub(T3, T2))
        /\ estimate[1].offset_ms = TruncDiv(Add(Sub(T2, T1), Sub(T3, T4)), 2)

\* C15: the delay computed is T4 - T1 and the offset computed is
\* T3 - (T1 + T4) / 2, the division truncating; T2 is not used.  T1 = 1000,
\* T2 = 2000, T3 = 2100, T4 = 1300 gives delay 300 and offset 950.
C15_Estimate ==
    estimate # None =>
        /\ estimate[1].roundtrip_ms = Sub(T4, T1)
        /\ estimate[1].offset_ms = Sub(T3, TruncDiv(Add(T1, T4), 2))
        /\ (T1 = Big(1000) /\ T3 = Big(2100) /\ T4 = Big(1300)) =>
              estimate[1] = [offset_ms |-> Big(950), roundtrip_ms |-> Big(300)]
        /\ (T1 = Big(1000) /\ T3 = Big(2100) /\ T4 = Big(1301)) =>
              estimate[1] = [offset_ms |-> Big(950), roundtrip_ms |-> Big(301)]

C15_Witness ==
    /\ estimate = Some([offset_ms |-> Big(950), roundtrip_ms |-> Big(300)])
    /\ T1 = Big(1000)
    /\ T2 = Big(2000)
    /\ T3 = Big(2100)
    /\ T4 = Big(1300)

\* C16: when local_before_ms + local_after_ms does not fit an i64, no offset
\* or round trip is computed from a wrapped sum, set_system_time is not
\* called, and the run ends at the averaging check with status 1.
C16_AveragingOverflow ==
    (Accepted /\ ~SumFits) =>
        /\ NoClockWrite
        /\ estimate = None
        /\ new_time_ms = None
        /\ Ended => (exit_code = Some(1) /\ exit_site = "avg_overflow")

C16_Witness ==
    /\ Ended
    /\ Accepted
    /\ ~SumFits
    /\ response[1].local_before_ms = TwoTo62
    /\ response[1].local_after_ms = TwoTo62
    /\ Privileged
    /\ ~config.test_only
    /\ exit_code = Some(1)

\* C17: at most one UDP socket is open, and it is open exactly while a
\* request awaits its reply: whichever way the turn of an address ends, its
\* socket is closed before the next is bound.
C17_OneSocket ==
    /\ sockets \in {0, 1}
    /\ (sockets = 1) = (pc = "recv")
    /\ (pc = "recv") = (before # None)
    /\ (pc = "recv") = (read_timeout # None)

\* The second socket of the second attempt, after replies that were passed over.
C17_Witness ==
    /\ pc = "recv"
    /\ sockets = 1
    /\ attempt = 2
    /\ addrs_left = 1
    /\ recv_failed
    /\ replies # {}

\* 2^32
TwoTo32 == <<0, 0, 4294, 967296>>

\* The NTP timestamp (seconds since 1900, then 2^-32 fractions) of a time
\* given in ms since 1970, for times up to 2036.
NtpTimestampOf(ms) ==
    to_be_bytes(Add(FloorDiv(ms, 1000), NTP_UNIX_EPOCH_DIFF))
        \o to_be_bytes(FloorDiv(MulSmall(TwoTo32, FloorMod(ms, 1000)), 1000))

OctetsOutsideTransmit == (2..NTP_PACKET_SIZE) \ (41..NTP_PACKET_SIZE)

\* C18 as stated: a request sent is 48 octets, 0x23 first, with the send time
\* in octets 40..47 and zero elsewhere.
C18_Original ==
    request # None =>
        /\ Len(request[1]) = NTP_PACKET_SIZE
        /\ request[1][1] = 35
        /\ \A i \in OctetsOutsideTransmit : request[1][i] = 0
        /\ (pc = "recv" /\ InCalendarRange(before[1])) =>
              SubSeq(request[1], 41, 48) = NtpTimestampOf(before[1])

\* C18: a request sent is 48 octets, 0x23 first and zero in every other
\* octet, those of the transmit timestamp included; the send time is read
\* from the local clock and kept by the program.
C18_RequestOctets ==
    /\ request # None =>
          /\ Len(request[1]) = NTP_PACKET_SIZE
          /\ request[1][1] = 0 * 64 + 4 * 8 + 3
          /\ \A i \in 2..NTP_PACKET_SIZE : request[1][i] = 0
    /\ pc = "recv" => (request # None /\ before # None)

C18_Witness ==
    /\ pc = "recv"
    /\ before = Some(T0)
    /\ request # None
    /\ SubSeq(request[1], 41, 48) # NtpTimestampOf(T0)
    /\ NtpTimestampOf(T0) = TsNewYear

\* The first gate of main that applies to the accepted reply.
FirstGate ==
    IF ~SumFits THEN "avg_overflow"
    ELSE IF ~DelayInRange THEN "roundtrip"
    ELSE IF Lt(Zero, Abs(Offset)) /\ Lt(Abs(Offset), Big(500)) THEN "below_threshold"
    ELSE IF ~YearInRange THEN "remote_year"
    ELSE IF config.test_only THEN "test_only"
    ELSE IF ~Privileged THEN "not_root"
    ELSE "write"

\* C19: after a reply is accepted the run ends at the first gate that
\* applies, in the order averaging overflow, delay out of range, offset nonzero
\* and below 500 ms, year out of range, dry run, not privileged, with that
\* gate's status, and the clock is written only when none applies; so an
\* out-of-range year with 0 < |offset| < 500 ends with status 0, and a dry
\* run with an out-of-range delay or year ends with status 1.
C19_GateOrder ==
    (Ended /\ Accepted) =>
        /\ (FirstGate = "write") = (set_calls # <<>>)
        /\ FirstGate = "write" => exit_site \in {"set_ok", "set_failed"}
        /\ FirstGate # "write" => exit_site = FirstGate
        /\ FirstGate \in {"avg_overflow", "roundtrip", "remote_year"} => exit_code = Some(1)
        /\ FirstGate \in {"below_threshold", "test_only", "not_root"} => exit_code = Some(0)
        /\ (SumFits /\ DelayInRange /\ ~YearInRange
              /\ Lt(Zero, Abs(Offset)) /\ Lt(Abs(Offset), Big(500))) => exit_code = Some(0)
        /\ (config.test_only /\ SumFits /\ ~DelayInRange) => exit_code = Some(1)
        /\ (config.test_only /\ SumFits /\ DelayInRange /\ ~YearInRange
              /\ ~Lt(Abs(Offset), Big(500))) => exit_code = Some(1)

\* A remote year of 2024 with an offset of 300 ms: below threshold, status 0.
C19_Witness ==
    /\ Ended
    /\ Accepted
    /\ SumFits
    /\ DelayInRange
    /\ RemoteYear = 2024
    /\ Abs(Offset) = Big(300)
    /\ exit_site = "below_threshold"
    /\ exit_code = Some(0)

\* C20: for every -r and -t the run ends.  retries is within 1..10 and
\* timeout_ms within 1..6000; do_ntp_query is called at least once and at
\* most retries times; a call sends at most one request for each address it
\* resolved (every request uses up an address); the recv_from of a request
\* runs under a read timeout of timeout_ms and is not repeated; and once
\* retries calls have failed the run exits with status 2.
C20_Terminates ==
    /\ [](config.retries \in 1..10 /\ config.timeout_ms \in 1..6000)
    /\ [](attempt <= config.retries /\ (Ended => attempt >= 1))
    /\ [](addrs_left <= MaxAddrs)
    /\ [](pc = "recv" => read_timeout = Some(config.timeout_ms))
    /\ [][ /\ Resolves => (pc = "loop" /\ attempt < config.retries)
           /\ Sends => (addrs_left >= 1 /\ addrs_left' = addrs_left)
           /\ pc = "recv" => (pc' # "recv" /\ addrs_left' < addrs_left)
           /\ (pc = "loop" /\ attempt >= config.retries) => exit_code' = Some(2) ]_vars
    /\ <>Ended

\* Ten attempts made under -r 11 -t 6001, none with a reply.
C20_Witness ==
    /\ Ended
    /\ config.retries = 10
    /\ config.timeout_ms = 6000
    /\ attempt = 10
    /\ replies = {}
    /\ request # None
    /\ exit_code = Some(2)

====
